---- MODULE Spec2Model ----
(***************************************************************************)
(* CBOM-Repository: the upload identity-assignment and versioning protocol *)
(* (internal/service/upload.go), the retrieval path                        *)
(* (internal/service/service.go, internal/http/handlers.go) and the        *)
(* storage adapter (internal/store/store.go) over an S3 bucket.            *)
(*                                                                         *)
(* Strings are sequences of string fragments, so that key construction     *)
(* (fmt.Sprintf), prefix cutting (strings.CutPrefix) and number parsing    *)
(* (strconv.Atoi) are computed and not assumed.  Every storage call of a   *)
(* request is one step of the request's process, so that requests          *)
(* interleave at the storage calls as goroutines do.                       *)
(***************************************************************************)
EXTENDS Integers, Sequences, FiniteSets, TLC

(***************************************************************************)
(* Bounds of the model.                                                    *)
(***************************************************************************)
\* Width in bits of Go's int, scaled down (64 in the build).
IntBits == 5
\* Width in bits of the significand of Go's float64, scaled down with it
\* (53 in the build).
MantBits == 3
\* Number of uploads started in one behaviour of requests served one at a
\* time (retrievals change nothing there and are not counted).
MaxOps == 2

Procs == {"p1", "p2"}

MaxInt == 2 ^ (IntBits - 1) - 1
MinInt == 0 - 2 ^ (IntBits - 1)

\* Go's int arithmetic wraps around (two's complement).
WrapInt(x) == ((x - MinInt) % (2 ^ IntBits)) + MinInt

(***************************************************************************)
(* Strings.                                                                *)
(***************************************************************************)
Digits == <<"0", "1", "2", "3", "4", "5", "6", "7", "8", "9">>
DigitSet == {Digits[i] : i \in 1..10}
DigitVal(c) == (CHOOSE i \in 1..10 : Digits[i] = c) - 1

RECURSIVE FormatUint(_)
FormatUint(n) ==
    IF n < 10 THEN <<Digits[n + 1]>>
    ELSE FormatUint(n \div 10) \o <<Digits[(n % 10) + 1]>>

\* fmt.Sprintf("%d", n)
FormatInt(n) == IF n < 0 THEN <<"-">> \o FormatUint(0 - n) ELSE FormatUint(n)

RECURSIVE ParseUint(_)
ParseUint(s) ==
    IF s = <<>> THEN 0
    ELSE 10 * ParseUint(SubSeq(s, 1, Len(s) - 1)) + DigitVal(s[Len(s)])

\* strconv.Atoi: optional sign, then one or more decimal digits, in range.
Atoi(s) ==
    LET signed == Len(s) > 0 /\ s[1] \in {"+", "-"}
        body   == IF signed THEN Tail(s) ELSE s
    IN  IF body = <<>> \/ (\E i \in 1..Len(body) : body[i] \notin DigitSet)
        THEN [ok |-> FALSE, val |-> 0]
        ELSE LET m == ParseUint(body)
                 v == IF signed /\ s[1] = "-" THEN 0 - m ELSE m
             IN  IF v < MinInt \/ v > MaxInt
                 THEN [ok |-> FALSE, val |-> 0]
                 ELSE [ok |-> TRUE, val |-> v]

HasPrefix(s, p) == Len(s) >= Len(p) /\ SubSeq(s, 1, Len(p)) = p

CutPrefix_Unchecked(s, p) ==
    [found |-> TRUE, after |-> SubSeq(s, Len(p) + 1, Len(s))]

\* strings.CutPrefix
CutPrefix(s, p) ==
    IF HasPrefix(s, p)
    THEN [found |-> TRUE, after |-> SubSeq(s, Len(p) + 1, Len(s))]
    ELSE [found |-> FALSE, after |-> s]

RECURSIVE Split(_, _)
\* strings.Split(s, sep) for a one-character separator.
Split(s, sep) ==
    IF \A i \in 1..Len(s) : s[i] # sep THEN <<s>>
    ELSE LET i == CHOOSE j \in 1..Len(s) : s[j] = sep /\ \A k \in 1..(j - 1) : s[k] # sep
         IN  <<SubSeq(s, 1, i - 1)>> \o Split(SubSeq(s, i + 1, Len(s)), sep)

\* strings.TrimSpace(s) == ""
IsBlank(s) == \A i \in 1..Len(s) : s[i] = " "

RECURSIVE Insert(_, _)
Insert(x, s) ==
    IF s = <<>> THEN <<x>>
    ELSE IF x <= s[1] THEN <<x>> \o s
    ELSE <<s[1]>> \o Insert(x, Tail(s))

SortInts_AsListed(s) == s

RECURSIVE SortInts(_)
\* sort.Ints
SortInts(s) == IF s = <<>> THEN <<>> ELSE Insert(s[1], SortInts(Tail(s)))

(***************************************************************************)
(* Documents.                                                              *)
(***************************************************************************)
U1 == <<"urn", ":", "uuid", ":", "aaaaaaaa", "-", "aaaa">>
U2 == <<"urn", ":", "uuid", ":", "bbbbbbbb", "-", "bbbb">>
\* The serial numbers of the model: what clients declare and what
\* uuid.NewString() returns.
Serials == {U1, U2}
NoSerial == <<>>

\* Versions a client declares; 0 is the decoded value of an absent version.
VersionInputs == {0, 1, 2, MaxInt}

\* Two byte strings of a client: one in arbitrary layout, one already in the
\* layout Go's encoding/json gives a generic map.
Payloads == {[body |-> "b1", enc |-> "client"], [body |-> "b2", enc |-> "generic"]}

\* The uploaded byte strings (all of them valid CycloneDX 1.6 documents).
Docs ==
    {[serialNumber |-> sn, version |-> v, body |-> pl.body, enc |-> pl.enc] :
        sn \in Serials \cup {NoSerial}, v \in VersionInputs, pl \in Payloads}

NoBytes == [serialNumber |-> NoSerial, version |-> 0, body |-> "none", enc |-> "none"]

Encode_AsDecoded(doc, sn, v) == [doc EXCEPT !.enc = "cdx"]

Encode_KeepVersion(doc, sn, v) ==
    [serialNumber |-> sn, version |-> doc.version, body |-> doc.body, enc |-> "cdx"]

\* cdx.NewBOMEncoder(...).Encode(&bom): the decoded document, serialized
\* again with the serial number and the version of bom.
Encode(doc, sn, v) ==
    [serialNumber |-> sn, version |-> v, body |-> doc.body, enc |-> "cdx"]

RECURSIVE Ulp(_)
\* The spacing of the float64 values around the magnitude a.
Ulp(a) == IF a < 2 ^ MantBits THEN 1 ELSE 2 * Ulp(a \div 2)

\* The float64 nearest to the integer v (ties to the even significand):
\* what json.Unmarshal stores for a JSON number in an interface{}.
Float64(v) ==
    LET a   == IF v < 0 THEN 0 - v ELSE v
        ulp == Ulp(a)
        q   == a \div ulp
        r   == a % ulp
        up  == 2 * r > ulp \/ (2 * r = ulp /\ q % 2 = 1)
        m   == IF up THEN (q + 1) * ulp ELSE q * ulp
    IN  IF v < 0 THEN 0 - m ELSE m

EncodeMap_Verbatim(b) == b

\* json.Unmarshal into map[string]interface{} followed by
\* json.NewEncoder(w).Encode: the JSON value in encoding/json's layout, its
\* numbers passed through float64.
EncodeMap(b) == [b EXCEPT !.enc = "generic", !.version = Float64(@)]

uploadKey_NoSeparator(urn, version) == urn \o FormatInt(version)

uploadKeyOriginal_Versioned(urn) == urn \o <<"-", "1">>

uploadKey(urn, version) == urn \o <<"-">> \o FormatInt(version)
uploadKeyOriginal(urn) == urn \o <<"-", "original">>

(***************************************************************************)
(* State.                                                                  *)
(***************************************************************************)
VARIABLES
    store,    \* the bucket: key -> object
    pc,       \* per request process: its position
    req,      \* per process: the request it serves
    bom,      \* per process: serial number and version of the decoded document
    listed,   \* per process: what GetObjectVersions returned to it
    calls,    \* per process: the storage calls it has issued, in order
    pre,      \* per process: the bucket when the request started
    priorA,   \* per process: doneA when the request started
    result,   \* per process: what the request returned
    doneA,    \* serial numbers returned by completed uploads without serial number
    nops,     \* requests counted so far against the bound of the behaviour
    faults    \* whether the backend may fail a storage call

vars == <<store, pc, req, bom, listed, calls, pre, priorA, result, doneA, nops, faults>>

\* Collisions of the generated serial number one upload meets at most.
MaxRetries == 2

NoReq == [kind |-> "none"]
NoBom == [serialNumber |-> NoSerial, version |-> 0]
NoList == [err |-> "none", versions |-> <<>>, hasOriginal |-> FALSE]
NoResult == [status |-> "none", serialNumber |-> NoSerial, version |-> 0, body |-> NoBytes]
EmptyStore == [k \in {} |-> NoBytes]

\* The version parameters of a retrieval: omitted, blank, numbers, the marker.
VersionParams == {<<>>, <<" ">>, <<"1">>, <<"2">>, FormatInt(MaxInt), <<"original">>}

(***************************************************************************)
(* Storage adapter (internal/store/store.go).                              *)
(***************************************************************************)
KeyExists_Never(st, key) == FALSE

KeyExists_Always(st, key) == TRUE

KeyExists_Prefix(st, key) == \E k \in DOMAIN st : HasPrefix(k, key)

\* Store.KeyExists on a reachable backend: HeadObject finds exactly the key.
KeyExists(st, key) == key \in DOMAIN st

\* ListObjectsV2 with Prefix = urn.
ListObjects(st, urn) == {k \in DOMAIN st : HasPrefix(k, urn)}

RECURSIVE ParseSuffixes(_, _)
\* The loop of GetObjectVersions over the listed keys: the versions in the
\* order visited, or the error of the first key that breaks the naming.
ParseSuffixes(keys, urn) ==
    IF keys = {} THEN [err |-> "nil", versions |-> <<>>, hasOriginal |-> FALSE]
    ELSE LET k    == CHOOSE x \in keys : TRUE
             cut  == CutPrefix(k, urn \o <<"-">>)
             rest == ParseSuffixes(keys \ {k}, urn)
         IN  IF ~cut.found THEN [err |-> "error", versions |-> <<>>, hasOriginal |-> FALSE]
             ELSE IF cut.after = <<"original">>
                  THEN IF rest.err = "nil" THEN [rest EXCEPT !.hasOriginal = TRUE] ELSE rest
             ELSE IF ~Atoi(cut.after).ok
                  THEN [err |-> "error", versions |-> <<>>, hasOriginal |-> FALSE]
             ELSE IF rest.err = "nil"
                  THEN [rest EXCEPT !.versions = <<Atoi(cut.after).val>> \o @]
                  ELSE rest

\* Store.GetObjectVersions on a reachable backend.
GetObjectVersions(st, urn) ==
    LET objects == ListObjects(st, urn)
    IN  IF objects = {} THEN [err |-> "notfound", versions |-> <<>>, hasOriginal |-> FALSE]
        ELSE LET r == ParseSuffixes(objects, urn)
             IN  IF r.err = "nil" THEN [r EXCEPT !.versions = SortInts(@)] ELSE r

\* Store.GetObject on a reachable backend.
GetObject(st, key) ==
    IF key \in DOMAIN st THEN [err |-> "nil", bytes |-> st[key].bytes]
    ELSE [err |-> "notfound", bytes |-> NoBytes]

Upload_Discard(st, key, meta, contents, by) == st

Upload_IfAbsent(st, key, meta, contents, by) ==
    [k \in DOMAIN st \cup {key} |->
        IF k \in DOMAIN st THEN st[k] ELSE [bytes |-> contents, version |-> meta, by |-> by]]

\* Store.Upload: an unconditional put.
Upload(st, key, meta, contents, by) ==
    [k \in DOMAIN st \cup {key} |->
        IF k = key THEN [bytes |-> contents, version |-> meta, by |-> by] ELSE st[k]]

Call(op, key, bytes, ok) == [op |-> op, key |-> key, bytes |-> bytes, ok |-> ok]

\* The successful puts among the storage calls of a process.
Writes(p) == SelectSeq(calls[p], LAMBDA c : c.op = "put" /\ c.ok)

(***************************************************************************)
(* Initial state: an empty bucket, no request in flight.                   *)
(***************************************************************************)
Idle ==
    /\ pc = [p \in Procs |-> "idle"]
    /\ req = [p \in Procs |-> NoReq]
    /\ bom = [p \in Procs |-> NoBom]
    /\ listed = [p \in Procs |-> NoList]
    /\ calls = [p \in Procs |-> <<>>]
    /\ pre = [p \in Procs |-> EmptyStore]
    /\ priorA = [p \in Procs |-> {}]
    /\ result = [p \in Procs |-> NoResult]
    /\ doneA = {}
    /\ nops = 0

Init == store = EmptyStore /\ Idle /\ faults = TRUE

\* What a storage call meets: the backend answers (TRUE) or fails (FALSE).
BackendOutcomes == IF faults THEN BOOLEAN ELSE {TRUE}

\* The request of p ends: it returns r.
Finish(p, r) ==
    /\ pc' = [pc EXCEPT ![p] = "done"]
    /\ result' = [result EXCEPT ![p] = r]

Outcome(status, sn, v) == [status |-> status, serialNumber |-> sn, version |-> v, body |-> NoBytes]
\* BOMCreated{} with a backend error.
Failed == Outcome("error", NoSerial, 0)
\* An index out of range: the goroutine panics and no result is returned.
Panicked == Outcome("panic", NoSerial, 0)

Log(p, c) == calls' = [calls EXCEPT ![p] = Append(@, c)]

(***************************************************************************)
(* Service.UploadBOM (internal/service/upload.go).                         *)
(***************************************************************************)
\* The switch of UploadBOM on the decoded serial number and version.
UploadCase(doc) ==
    IF doc.serialNumber = NoSerial THEN "A"
    ELSE IF doc.version < 1 THEN "B"
    ELSE "C"

\* UploadBOM up to its switch: the document is decoded and dispatched.
UploadBOM(p, doc) ==
    /\ pc[p] = "idle"
    /\ nops' = nops + 1
    /\ req' = [req EXCEPT ![p] = [kind |-> "upload", doc |-> doc]]
    /\ bom' = [bom EXCEPT ![p] = [serialNumber |-> doc.serialNumber, version |-> doc.version]]
    /\ pre' = [pre EXCEPT ![p] = store]
    /\ priorA' = [priorA EXCEPT ![p] = doneA]
    /\ pc' = [pc EXCEPT ![p] =
                CASE UploadCase(doc) = "A" -> "A_KeyExists"
                  [] UploadCase(doc) = "B" -> "B_GetObjectVersions"
                  [] OTHER -> "C_KeyExists"]
    /\ UNCHANGED <<store, listed, calls, result, doneA, faults>>

\* uploadCaseSNInvalid, one turn of the loop: a serial number is generated
\* and the key of its version 1 is looked up.
uploadCaseSNInvalid_KeyExists(p) ==
    /\ pc[p] = "A_KeyExists"
    /\ \E u \in Serials, backendOK \in BackendOutcomes :
         LET key == uploadKey(u, 1)
         IN  /\ Log(p, Call("head", key, NoBytes, backendOK))
             /\ IF ~backendOK
                THEN /\ Finish(p, Failed)
                     /\ bom' = [bom EXCEPT ![p] = [serialNumber |-> u, version |-> 1]]
                ELSE IF KeyExists(store, key)
                THEN /\ Len(calls[p]) < MaxRetries
                     /\ bom' = [bom EXCEPT ![p] = [serialNumber |-> u, version |-> 1]]
                     /\ UNCHANGED <<pc, result>>
                ELSE /\ bom' = [bom EXCEPT ![p] = [serialNumber |-> u, version |-> 1]]
                     /\ pc' = [pc EXCEPT ![p] = "A_UploadOriginal"]
                     /\ UNCHANGED result
    /\ UNCHANGED <<store, req, listed, pre, priorA, doneA, nops, faults>>

\* uploadCaseSNInvalid: the uploaded bytes are stored under -original.
uploadCaseSNInvalid_UploadOriginal(p) ==
    /\ pc[p] = "A_UploadOriginal"
    /\ \E backendOK \in BackendOutcomes :
         LET key == uploadKeyOriginal(bom[p].serialNumber)
         IN  /\ Log(p, Call("put", key, req[p].doc, backendOK))
             /\ IF backendOK
                THEN /\ store' = Upload(store, key, <<"original">>, req[p].doc, "A")
                     /\ pc' = [pc EXCEPT ![p] = "A_UploadModified"]
                     /\ UNCHANGED result
                ELSE /\ Finish(p, Failed)
                     /\ UNCHANGED store
    /\ UNCHANGED <<req, bom, listed, pre, priorA, doneA, nops, faults>>

\* uploadCaseSNInvalid: the document with the generated serial number and
\* version 1 is stored under -1.
uploadCaseSNInvalid_UploadModified(p) ==
    /\ pc[p] = "A_UploadModified"
    /\ \E backendOK \in BackendOutcomes :
         LET key == uploadKey(bom[p].serialNumber, bom[p].version)
             modified == Encode(req[p].doc, bom[p].serialNumber, bom[p].version)
         IN  /\ Log(p, Call("put", key, modified, backendOK))
             /\ IF backendOK
                THEN /\ store' = Upload(store, key, FormatInt(bom[p].version), modified, "A")
                     /\ Finish(p, Outcome("success", bom[p].serialNumber, bom[p].version))
                ELSE /\ Finish(p, Failed)
                     /\ UNCHANGED store
    /\ UNCHANGED <<req, bom, listed, pre, priorA, doneA, nops, faults>>

\* The version uploadCaseSNValidVersionInvalid assigns after a listing
\* without error: versions[len(versions)-1] + 1.
NextVersion(versions) == WrapInt(versions[Len(versions)] + 1)

\* uploadCaseSNValidVersionInvalid: the versions of the serial number are
\* listed and the next one is assigned.
uploadCaseSNValidVersionInvalid_GetObjectVersions(p) ==
    /\ pc[p] = "B_GetObjectVersions"
    /\ \E backendOK \in BackendOutcomes :
         LET r == IF backendOK THEN GetObjectVersions(store, bom[p].serialNumber)
                  ELSE [err |-> "error", versions |-> <<>>, hasOriginal |-> FALSE]
         IN  /\ Log(p, Call("list", bom[p].serialNumber, NoBytes, backendOK))
             /\ listed' = [listed EXCEPT ![p] = r]
             /\ CASE r.err = "notfound" ->
                       /\ bom' = [bom EXCEPT ![p].version = 1]
                       /\ pc' = [pc EXCEPT ![p] = "B_Upload"]
                       /\ UNCHANGED result
                  [] r.err = "error" ->
                       /\ Finish(p, Failed)
                       /\ UNCHANGED bom
                  [] r.err = "nil" /\ r.versions = <<>> ->
                       /\ Finish(p, Panicked)
                       /\ UNCHANGED bom
                  [] OTHER ->
                       /\ bom' = [bom EXCEPT ![p].version = NextVersion(r.versions)]
                       /\ pc' = [pc EXCEPT ![p] = "B_Upload"]
                       /\ UNCHANGED result
    /\ UNCHANGED <<store, req, pre, priorA, doneA, nops, faults>>

\* uploadCaseSNValidVersionInvalid: the document with the assigned version
\* is stored.
uploadCaseSNValidVersionInvalid_Upload(p) ==
    /\ pc[p] = "B_Upload"
    /\ \E backendOK \in BackendOutcomes :
         LET key == uploadKey(bom[p].serialNumber, bom[p].version)
             modified == Encode(req[p].doc, bom[p].serialNumber, bom[p].version)
         IN  /\ Log(p, Call("put", key, modified, backendOK))
             /\ IF backendOK
                THEN /\ store' = Upload(store, key, FormatInt(bom[p].version), modified, "B")
                     /\ Finish(p, Outcome("success", bom[p].serialNumber, bom[p].version))
                ELSE /\ Finish(p, Failed)
                     /\ UNCHANGED store
    /\ UNCHANGED <<req, bom, listed, pre, priorA, doneA, nops, faults>>

\* uploadCaseSNValidVersionValid: the exact key is looked up.
uploadCaseSNValidVersionValid_KeyExists(p) ==
    /\ pc[p] = "C_KeyExists"
    /\ \E backendOK \in BackendOutcomes :
         LET key == uploadKey(bom[p].serialNumber, bom[p].version)
         IN  /\ Log(p, Call("head", key, NoBytes, backendOK))
             /\ IF ~backendOK
                THEN Finish(p, Failed)
                ELSE IF KeyExists(store, key)
                THEN Finish(p, Outcome("conflict", bom[p].serialNumber, bom[p].version))
                ELSE /\ pc' = [pc EXCEPT ![p] = "C_Upload"]
                     /\ UNCHANGED result
    /\ UNCHANGED <<store, req, bom, listed, pre, priorA, doneA, nops, faults>>

\* uploadCaseSNValidVersionValid: the uploaded bytes are stored.
uploadCaseSNValidVersionValid_Upload(p) ==
    /\ pc[p] = "C_Upload"
    /\ \E backendOK \in BackendOutcomes :
         LET key == uploadKey(bom[p].serialNumber, bom[p].version)
         IN  /\ Log(p, Call("put", key, req[p].doc, backendOK))
             /\ IF backendOK
                THEN /\ store' = Upload(store, key, FormatInt(bom[p].version), req[p].doc, "C")
                     /\ Finish(p, Outcome("success", bom[p].serialNumber, bom[p].version))
                ELSE /\ Finish(p, Failed)
                     /\ UNCHANGED store
    /\ UNCHANGED <<req, bom, listed, pre, priorA, doneA, nops, faults>>

(***************************************************************************)
(* Server.GetByURN and Service.GetBOMByUrn                                 *)
(* (internal/http/handlers.go, internal/service/service.go).               *)
(***************************************************************************)
\* GetBOMByUrn up to its first storage call.
GetBOMByUrn(p, urn, version) ==
    /\ pc[p] = "idle"
    /\ req' = [req EXCEPT ![p] = [kind |-> "get", urn |-> urn, version |-> version]]
    /\ pre' = [pre EXCEPT ![p] = store]
    /\ priorA' = [priorA EXCEPT ![p] = doneA]
    /\ pc' = [pc EXCEPT ![p] =
                IF IsBlank(version) THEN "G_GetObjectVersions" ELSE "G_GetObject"]
    /\ UNCHANGED <<store, bom, listed, calls, result, doneA, faults>>

\* GetBOMByUrn, version omitted: the versions are listed and the last of the
\* sorted list is selected.
GetBOMByUrn_GetObjectVersions(p) ==
    /\ pc[p] = "G_GetObjectVersions"
    /\ \E backendOK \in BackendOutcomes :
         LET r == IF backendOK THEN GetObjectVersions(store, req[p].urn)
                  ELSE [err |-> "error", versions |-> <<>>, hasOriginal |-> FALSE]
         IN  /\ Log(p, Call("list", req[p].urn, NoBytes, backendOK))
             /\ listed' = [listed EXCEPT ![p] = r]
             /\ CASE r.err = "notfound" ->
                       /\ Finish(p, Outcome("notfound", NoSerial, 0))
                       /\ UNCHANGED req
                  [] r.err = "error" ->
                       /\ Finish(p, Failed)
                       /\ UNCHANGED req
                  [] r.err = "nil" /\ r.versions = <<>> ->
                       /\ Finish(p, Panicked)
                       /\ UNCHANGED req
                  [] OTHER ->
                       /\ req' = [req EXCEPT ![p].version = FormatInt(r.versions[Len(r.versions)])]
                       /\ pc' = [pc EXCEPT ![p] = "G_GetObject"]
                       /\ UNCHANGED result
    /\ UNCHANGED <<store, bom, pre, priorA, doneA, nops, faults>>

\* GetBOMByUrn: the object is fetched, and the handler writes it out again
\* from the generic map it was decoded into.
GetBOMByUrn_GetObject(p) ==
    /\ pc[p] = "G_GetObject"
    /\ \E backendOK \in BackendOutcomes :
         LET key == req[p].urn \o <<"-">> \o req[p].version
             r   == GetObject(store, key)
         IN  /\ Log(p, Call("get", key, NoBytes, backendOK))
             /\ IF ~backendOK THEN Finish(p, Failed)
                ELSE IF r.err = "notfound" THEN Finish(p, Outcome("notfound", NoSerial, 0))
                ELSE Finish(p, [status |-> "ok", serialNumber |-> NoSerial, version |-> 0,
                                body |-> EncodeMap(r.bytes)])
    /\ UNCHANGED <<store, req, bom, listed, pre, priorA, doneA, nops, faults>>

(***************************************************************************)
(* The request handler returns.                                            *)
(***************************************************************************)
Return(p) ==
    /\ pc[p] = "done"
    /\ doneA' = IF req[p].kind = "upload" /\ UploadCase(req[p].doc) = "A"
                   /\ result[p].status = "success"
                THEN doneA \cup {result[p].serialNumber}
                ELSE doneA
    /\ pc' = [pc EXCEPT ![p] = "idle"]
    /\ req' = [req EXCEPT ![p] = NoReq]
    /\ bom' = [bom EXCEPT ![p] = NoBom]
    /\ listed' = [listed EXCEPT ![p] = NoList]
    /\ calls' = [calls EXCEPT ![p] = <<>>]
    /\ pre' = [pre EXCEPT ![p] = EmptyStore]
    /\ priorA' = [priorA EXCEPT ![p] = {}]
    /\ result' = [result EXCEPT ![p] = NoResult]
    /\ UNCHANGED <<store, nops, faults>>

\* One storage call, or the return, of a request in flight.
Step(p) ==
    \/ uploadCaseSNInvalid_KeyExists(p)
    \/ uploadCaseSNInvalid_UploadOriginal(p)
    \/ uploadCaseSNInvalid_UploadModified(p)
    \/ uploadCaseSNValidVersionInvalid_GetObjectVersions(p)
    \/ uploadCaseSNValidVersionInvalid_Upload(p)
    \/ uploadCaseSNValidVersionValid_KeyExists(p)
    \/ uploadCaseSNValidVersionValid_Upload(p)
    \/ GetBOMByUrn_GetObjectVersions(p)
    \/ GetBOMByUrn_GetObject(p)
    \/ Return(p)

(***************************************************************************)
(* Requests served concurrently, one goroutine each (net/http): as many   *)
(* requests as there are processes, overlapping in any way or not at all.  *)
(***************************************************************************)
Next ==
    \E p \in Procs :
        \/ nops < Cardinality(Procs) /\ \E doc \in Docs : UploadBOM(p, doc)
        \/ nops < Cardinality(Procs) /\ nops' = nops + 1
             /\ \E urn \in Serials, version \in VersionParams : GetBOMByUrn(p, urn, version)
        \/ Step(p)

Spec == Init /\ [][Next]_vars

(***************************************************************************)
(* Requests served one at a time: a request starts only when no other is   *)
(* in flight.                                                              *)
(***************************************************************************)
NoneInFlight == \A q \in Procs : pc[q] = "idle"

\* Which goroutine serves a request makes no difference when no two overlap.
Worker == CHOOSE p \in Procs : TRUE

\* Uploads explored in one behaviour: one more on a backend that never
\* fails, where the behaviours are fewer.
UploadBudget == IF faults THEN MaxOps ELSE MaxOps + 1

NextSeq ==
    \/ NoneInFlight /\ nops < UploadBudget /\ \E doc \in Docs : UploadBOM(Worker, doc)
    \/ NoneInFlight /\ UNCHANGED nops
         /\ \E urn \in Serials, version \in VersionParams : GetBOMByUrn(Worker, urn, version)
    \/ Step(Worker)

SpecSeq == Init /\ [][NextSeq]_vars

\* The same, on a backend that never fails a call.
InitReliable == store = EmptyStore /\ Idle /\ faults = FALSE

SpecSeqReliable == InitReliable /\ [][NextSeq]_vars

(***************************************************************************)
(* Retrievals from a bucket filled by any writer: the keys include ones    *)
(* that break the naming convention.                                       *)
(***************************************************************************)
BucketKeys ==
    {U1 \o <<"-", "1">>, U1 \o <<"-", "2">>, U1 \o <<"-", "9">>,
     U1 \o <<"-", "1", "0">>, U1 \o <<"-", "original">>, U1 \o <<"-", "abc">>,
     U1 \o <<"-", "+", "2">>, U1 \o <<"x", "-", "1">>, U2 \o <<"-", "1">>}

\* An object put under key k by a writer other than this service.
ForeignObject(k) ==
    [bytes |-> [serialNumber |-> NoSerial, version |-> 0, body |-> k, enc |-> "generic"],
     version |-> <<>>, by |-> "foreign"]

InitLV ==
    /\ \E keys \in SUBSET BucketKeys : store = [k \in keys |-> ForeignObject(k)]
    /\ Idle
    /\ faults = TRUE

NextLV ==
    \/ NoneInFlight /\ UNCHANGED nops
         /\ \E urn \in Serials, version \in VersionParams : GetBOMByUrn(Worker, urn, version)
    \/ GetBOMByUrn_GetObjectVersions(Worker)
    \/ GetBOMByUrn_GetObject(Worker)
    \/ Return(Worker)

SpecLV == InitLV /\ [][NextLV]_vars

(***************************************************************************)
(* The upload endpoint up to the storage calls: content type, declared     *)
(* schema version, decoding, structural checks, schema validation          *)
(* (internal/http/handlers.go, internal/http/mime.go,                      *)
(* internal/service/upload.go, internal/service/service.go).               *)
(***************************************************************************)
CdxMediaType == "application/vnd.cyclonedx+json"
defaultBOMVersion == "1.6"

\* Content-Type headers: blank, not parsable as a media type, or a media
\* type with or without a version parameter.
ContentTypes ==
    {[blank |-> TRUE,  parses |-> FALSE, type |-> "",               version |-> "absent"],
     [blank |-> FALSE, parses |-> FALSE, type |-> "",               version |-> "absent"],
     [blank |-> FALSE, parses |-> TRUE,  type |-> "application/json", version |-> "absent"],
     [blank |-> FALSE, parses |-> TRUE,  type |-> "application/json", version |-> "1.6"],
     [blank |-> FALSE, parses |-> TRUE,  type |-> CdxMediaType,     version |-> "absent"],
     [blank |-> FALSE, parses |-> TRUE,  type |-> CdxMediaType,     version |-> "1.6"],
     [blank |-> FALSE, parses |-> TRUE,  type |-> CdxMediaType,     version |-> "1.5"],
     [blank |-> FALSE, parses |-> TRUE,  type |-> CdxMediaType,     version |-> "7.0"]}

CheckContentType_AnyType(contentType) ==
    IF contentType.blank \/ ~contentType.parses THEN [ok |-> FALSE, version |-> ""]
    ELSE [ok |-> TRUE,
          version |-> IF contentType.version = "absent" THEN defaultBOMVersion
                      ELSE contentType.version]

CheckContentType(contentType) ==
    IF contentType.blank THEN [ok |-> FALSE, version |-> ""]
    ELSE IF ~contentType.parses THEN [ok |-> FALSE, version |-> ""]
    ELSE IF contentType.type # CdxMediaType THEN [ok |-> FALSE, version |-> ""]
    ELSE [ok |-> TRUE,
          version |-> IF contentType.version = "absent" THEN defaultBOMVersion
                      ELSE contentType.version]

\* The schema versions with an embedded schema file.
versionToEmbeddedFileMapping == {"1.6"}
VersionSupported(version) == version \in versionToEmbeddedFileMapping

knownCdxVersion(v) ==
    IF v \in {"1.0", "1.1", "1.2", "1.3", "1.4", "1.5", "1.6"}
    THEN [ok |-> TRUE, spec |-> v]
    ELSE [ok |-> FALSE, spec |-> "unknown"]

\* uuid.Parse, on UUIDs scaled down to two groups of hexadecimal digits: the
\* plain form, the form without dashes and the form in braces.
HexGroup1 == {"aaaaaaaa", "bbbbbbbb"}
HexGroup2 == {"aaaa", "bbbb"}
uuidParse(s) ==
    \/ Len(s) = 3 /\ s[1] \in HexGroup1 /\ s[2] = "-" /\ s[3] \in HexGroup2
    \/ Len(s) = 2 /\ s[1] \in HexGroup1 /\ s[2] \in HexGroup2
    \/ Len(s) = 5 /\ s[1] = "{" /\ s[2] \in HexGroup1 /\ s[3] = "-"
                  /\ s[4] \in HexGroup2 /\ s[5] = "}"

URNValid(urn) ==
    LET subs == Split(urn, ":")
    IN  /\ Len(subs) = 3
        /\ subs[1] = <<"urn">> /\ subs[2] = <<"uuid">>
        /\ uuidParse(subs[3])

\* Serial numbers a client may declare: none, well-formed ones and others.
SerialInputs ==
    Serials \cup
    {NoSerial,
     <<"urn", ":", "uuid", ":", "{", "aaaaaaaa", "-", "aaaa", "}">>,
     <<"urn", ":", "uuid", ":", "zzzzzzzz", "-", "aaaa">>,
     <<"urn", ":", "isbn", ":", "aaaaaaaa", "-", "aaaa">>,
     <<"uuid", ":", "aaaaaaaa", "-", "aaaa">>,
     <<"urn", ":", "uuid", ":", "aaaaaaaa", "-", "aaaa", ":", "x">>}

\* What the structural checks read of a decoded document.
BomHeads ==
    [bomFormat : {"CycloneDX", "SPDX"}, specVersion : {"1.6", "1.5"},
     serialNumber : SerialInputs]

\* nil, or the error of the first check that fails.
uploadInputChecks(b, expectedVersion) ==
    IF b.bomFormat # "CycloneDX" THEN "required format"
    ELSE IF b.serialNumber # NoSerial /\ ~URNValid(b.serialNumber)
         THEN "serial number not valid"
    ELSE IF ~knownCdxVersion(expectedVersion).ok THEN "unknown cyclonedx bom version"
    ELSE IF b.specVersion # knownCdxVersion(expectedVersion).spec THEN "required version"
    ELSE "nil"


\* An upload request: its Content-Type header, whether its body decodes as
\* CycloneDX JSON, what the structural checks read of it, whether it
\* conforms to the schema of the declared version.
UploadRequests ==
    [contentType : ContentTypes, decodes : BOOLEAN, head : BomHeads, schemaValid : BOOLEAN]

Rejected(status, reason) ==
    [status |-> status, serialNumber |-> NoSerial, version |-> 0, body |-> NoBytes,
     reason |-> reason]

UploadVerdict_SchemaUnchecked(rq) ==
    LET ct == CheckContentType(rq.contentType)
    IN  IF ~ct.ok THEN Rejected("unsupported-media", "content type")
        ELSE IF ~VersionSupported(ct.version)
             THEN Rejected("unsupported-version", "version not supported")
        ELSE IF ~rq.decodes THEN Rejected("error", "decode")
        ELSE IF uploadInputChecks(rq.head, ct.version) # "nil"
             THEN Rejected("validation", uploadInputChecks(rq.head, ct.version))
        ELSE Rejected("accepted", "none")

\* Server.Upload and Service.UploadBOM up to the switch on the case: how the
\* request is turned away, or "accepted".
UploadVerdict(rq) ==
    LET ct == CheckContentType(rq.contentType)
    IN  IF ~ct.ok THEN Rejected("unsupported-media", "content type")
        ELSE IF ~VersionSupported(ct.version)
             THEN Rejected("unsupported-version", "version not supported")
        ELSE IF ~rq.decodes THEN Rejected("error", "decode")
        ELSE IF uploadInputChecks(rq.head, ct.version) # "nil"
             THEN Rejected("validation", uploadInputChecks(rq.head, ct.version))
        ELSE IF ~rq.schemaValid
             THEN Rejected("validation", "does not conform to the declared schema")
        ELSE Rejected("accepted", "none")

\* Server.Upload: the response written for what UploadBOM returned (code 0:
\* the goroutine panicked and no response is written).
UploadResponse(r) ==
    CASE r.status = "unsupported-media" -> [code |-> 415, fields |-> {}]
      [] r.status = "unsupported-version" -> [code |-> 400, fields |-> {"supported-versions"}]
      [] r.status = "conflict" ->
            [code |-> 409, fields |-> {"serial-number", "version"},
             serialNumber |-> r.serialNumber, version |-> r.version]
      [] r.status = "validation" -> [code |-> 400, fields |-> {"error"}]
      [] r.status = "success" ->
            [code |-> 201, fields |-> {"serialNumber", "version", "stats"},
             serialNumber |-> r.serialNumber, version |-> r.version]
      [] r.status = "panic" -> [code |-> 0, fields |-> {}]
      [] OTHER -> [code |-> 500, fields |-> {"error"}]

\* An upload turned away before any storage call.
ServerUpload_Rejected(p, rq) ==
    /\ pc[p] = "idle"
    /\ UploadVerdict(rq).status # "accepted"
    /\ nops' = nops + 1
    /\ req' = [req EXCEPT ![p] = [kind |-> "rejected", rq |-> rq]]
    /\ pre' = [pre EXCEPT ![p] = store]
    /\ priorA' = [priorA EXCEPT ![p] = doneA]
    /\ Finish(p, UploadVerdict(rq))
    /\ UNCHANGED <<store, bom, listed, calls, doneA, faults>>

\* An upload that passes every check and reaches the switch on the case.
ServerUpload_Accepted(p, rq, doc) ==
    /\ UploadVerdict(rq).status = "accepted"
    /\ rq.head.serialNumber = doc.serialNumber
    /\ UploadBOM(p, doc)

\* A bucket after one Case C upload of (U1, 1).
StoredOnce ==
    LET doc == [serialNumber |-> U1, version |-> 1, body |-> "b1", enc |-> "client"]
    IN  Upload(EmptyStore, uploadKey(U1, 1), FormatInt(1), doc, "C")

InitHTTP ==
    /\ store \in {EmptyStore, StoredOnce}
    /\ Idle
    /\ faults = TRUE

\* One upload request, of any kind, served from start to end.
NextHTTP ==
    \/ NoneInFlight /\ nops = 0
         /\ \E rq \in UploadRequests : ServerUpload_Rejected(Worker, rq)
    \/ NoneInFlight /\ nops = 0
         /\ \E rq \in UploadRequests, doc \in Docs : ServerUpload_Accepted(Worker, rq, doc)
    \/ uploadCaseSNInvalid_KeyExists(Worker)
    \/ uploadCaseSNInvalid_UploadOriginal(Worker)
    \/ uploadCaseSNInvalid_UploadModified(Worker)
    \/ uploadCaseSNValidVersionInvalid_GetObjectVersions(Worker)
    \/ uploadCaseSNValidVersionInvalid_Upload(Worker)
    \/ uploadCaseSNValidVersionValid_KeyExists(Worker)
    \/ uploadCaseSNValidVersionValid_Upload(Worker)
    \/ Return(Worker)

SpecHTTP == InitHTTP /\ [][NextHTTP]_vars

(***************************************************************************)
(* Search (internal/http/handlers.go, internal/service/service.go,         *)
(* internal/store/store.go), on a bucket whose objects carry the time of   *)
(* their last modification.                                                *)
(***************************************************************************)
\* Time runs in ticks; LastModified is finer than the seconds of 'after'.
TicksPerSecond == 2
MaxTick == 3
Ticks == 0..MaxTick

\* Keys a bucket may hold: of this service's naming or not.
SearchKeys ==
    {U1 \o <<"-", "1">>, U2 \o <<"-", "original">>, U1 \o <<"-", "abc">>, <<"readme">>}

TimedObject(k, t) ==
    [bytes |-> [serialNumber |-> NoSerial, version |-> 0, body |-> k, enc |-> "generic"],
     version |-> <<>>, by |-> "foreign", modified |-> t]

\* The 'after' query parameters: absent, blank, not a number, negative,
\* with a space, and numbers of seconds.
AfterParams ==
    {<<>>, <<" ">>, <<"a", "b">>, <<"-", "1">>, <<" ", "1">>, <<"0">>, <<"1">>, <<"+", "1">>}

RECURSIVE ListAll(_)
\* The keys of a listing, in the order of the pages.
ListAll(keys) ==
    IF keys = {} THEN <<>>
    ELSE LET k == CHOOSE x \in keys : TRUE IN <<k>> \o ListAll(keys \ {k})

StoreSearch_NotBefore(st, ts) ==
    ListAll({k \in DOMAIN st : ts * TicksPerSecond <= st[k].modified})

\* Store.Search on a reachable backend: no prefix, the keys whose
\* LastModified is after time.Unix(ts, 0).
StoreSearch(st, ts) ==
    ListAll({k \in DOMAIN st : ts * TicksPerSecond < st[k].modified})

\* strings.LastIndex(s, "-"), counted from 1; 0 when there is none.
LastIndex(s, c) ==
    IF \A i \in 1..Len(s) : s[i] # c THEN 0
    ELSE CHOOSE i \in 1..Len(s) : s[i] = c /\ \A j \in (i + 1)..Len(s) : s[j] # c

RECURSIVE SplitKeys(_)
\* The loop of Service.Search over the keys.
SplitKeys(r) ==
    IF r = <<>> THEN [err |-> "nil", res |-> <<>>]
    ELSE LET cpy  == r[1]
             idx  == LastIndex(cpy, "-")
             rest == SplitKeys(Tail(r))
         IN  IF idx = 0 THEN [err |-> "error", res |-> <<>>]
             ELSE IF rest.err # "nil" THEN rest
             ELSE [rest EXCEPT !.res =
                      <<[serialNumber |-> SubSeq(cpy, 1, idx - 1),
                         version |-> SubSeq(cpy, idx + 1, Len(cpy))]>> \o @]

\* Service.Search on a reachable backend.
ServiceSearch(st, ts) == SplitKeys(StoreSearch(st, ts))

SearchResult(status, res) ==
    [status |-> status, serialNumber |-> NoSerial, version |-> 0, body |-> NoBytes, res |-> res]

\* Server.Search up to the storage call: the parameter is validated.
ServerSearch(p, after) ==
    /\ pc[p] = "idle"
    /\ req' = [req EXCEPT ![p] = [kind |-> "search", after |-> after]]
    /\ pre' = [pre EXCEPT ![p] = store]
    /\ priorA' = [priorA EXCEPT ![p] = doneA]
    /\ IF IsBlank(after) \/ ~Atoi(after).ok \/ Atoi(after).val < 0
       THEN Finish(p, SearchResult("bad-request", <<>>))
       ELSE pc' = [pc EXCEPT ![p] = "S_Search"] /\ UNCHANGED result
    /\ UNCHANGED <<store, bom, listed, calls, doneA, nops, faults>>

\* Service.Search: the bucket is listed and the keys are split.
ServerSearch_Search(p) ==
    /\ pc[p] = "S_Search"
    /\ \E backendOK \in BackendOutcomes :
         LET r == ServiceSearch(store, Atoi(req[p].after).val)
         IN  /\ Log(p, Call("search", req[p].after, NoBytes, backendOK))
             /\ IF ~backendOK \/ r.err # "nil"
                THEN Finish(p, SearchResult("error", <<>>))
                ELSE Finish(p, SearchResult("ok", r.res))
    /\ UNCHANGED <<store, req, bom, listed, pre, priorA, doneA, nops, faults>>

InitSearch ==
    /\ \E keys \in SUBSET SearchKeys : \E mt \in [keys -> Ticks] :
          store = [k \in keys |-> TimedObject(k, mt[k])]
    /\ Idle
    /\ faults = TRUE

NextSearch ==
    \/ NoneInFlight /\ \E after \in AfterParams : ServerSearch(Worker, after)
    \/ ServerSearch_Search(Worker)
    \/ Return(Worker)

SpecSearch == InitSearch /\ [][NextSearch]_vars

(***************************************************************************)
(* Statistics of an uploaded document (internal/service/stats.go).         *)
(***************************************************************************)
\* Length of the component lists considered.
MaxComponents == 3

CryptoAsset == "cryptographic-asset"
AssetTypes == {"algorithm", "certificate", "protocol", "related-crypto-material"}

\* Components: their type and their crypto properties (nil or with an asset
\* type, one of the four counted or another).
Components ==
    {[type |-> "library", hasCryptoProperties |-> FALSE, assetType |-> ""],
     [type |-> "library", hasCryptoProperties |-> TRUE, assetType |-> "algorithm"],
     [type |-> CryptoAsset, hasCryptoProperties |-> FALSE, assetType |-> ""],
     [type |-> CryptoAsset, hasCryptoProperties |-> TRUE, assetType |-> "other"]}
    \cup {[type |-> CryptoAsset, hasCryptoProperties |-> TRUE, assetType |-> a] : a \in AssetTypes}

\* bom.Components: nil, or a list.
ComponentLists ==
    {[isNil |-> TRUE, list |-> <<>>]} \cup
    {[isNil |-> FALSE, list |-> l] :
        l \in UNION {[1..n -> Components] : n \in 0..MaxComponents}}

ZeroStats ==
    [total |-> 0, algorithms |-> 0, certificates |-> 0, protocols |-> 0, related |-> 0]

Counted_AnyCryptoAsset(component) == component.type = CryptoAsset

\* The component passes the two tests at the head of the loop body.
Counted(component) ==
    component.type = CryptoAsset /\ component.hasCryptoProperties

\* One turn of the loop of BOMStats.
CountComponent(st, component) ==
    IF ~Counted(component) THEN st
    ELSE LET t == [st EXCEPT !.total = @ + 1]
         IN  CASE component.assetType = "algorithm" -> [t EXCEPT !.algorithms = @ + 1]
               [] component.assetType = "certificate" -> [t EXCEPT !.certificates = @ + 1]
               [] component.assetType = "protocol" -> [t EXCEPT !.protocols = @ + 1]
               [] component.assetType = "related-crypto-material" -> [t EXCEPT !.related = @ + 1]
               [] OTHER -> t

RECURSIVE CountAll(_, _)
CountAll(st, list) ==
    IF list = <<>> THEN st ELSE CountAll(CountComponent(st, Head(list)), Tail(list))

BOMStats(components) ==
    IF components.isNil THEN ZeroStats ELSE CountAll(ZeroStats, components.list)

\* A document arrives whose statistics are to be computed.
StatsRequest(p, components) ==
    /\ pc[p] = "idle"
    /\ req' = [req EXCEPT ![p] = [kind |-> "stats", components |-> components]]
    /\ pc' = [pc EXCEPT ![p] = "T_BOMStats"]
    /\ UNCHANGED <<store, bom, listed, calls, pre, priorA, result, doneA, nops, faults>>

\* BOMStats is applied.
StatsRequest_BOMStats(p) ==
    /\ pc[p] = "T_BOMStats"
    /\ Finish(p, [status |-> "stats", stats |-> BOMStats(req[p].components)])
    /\ UNCHANGED <<store, req, bom, listed, calls, pre, priorA, doneA, nops, faults>>

NextStats ==
    \/ \E components \in ComponentLists : StatsRequest(Worker, components)
    \/ StatsRequest_BOMStats(Worker)
    \/ Return(Worker)

SpecStats == Init /\ [][NextStats]_vars

(***************************************************************************)
(* Health endpoints (internal/health, internal/http).                      *)
(***************************************************************************)
\* Number of checkers registered with the health service.
MaxCheckers == 2

StatusUp == "UP"
StatusDown == "DOWN"
StatusOutOfService == "OUT_OF_SERVICE"
StatusUnknown == "UNKNOWN"
StatusDegraded == "DEGRADED"
Statuses == {StatusUp, StatusDown, StatusOutOfService, StatusUnknown, StatusDegraded}

\* What Checker.Name() may return.
CheckerNames == {"storage", "cache", "readiness", "liveness"}

\* The registered checkers, in the order of registration, each with the
\* status its Check reports during the request.
CheckerLists ==
    UNION {[1..n -> [name : CheckerNames, status : Statuses]] : n \in 0..MaxCheckers}

RECURSIVE RunCheckers(_, _)
\* for _, checker := range s.checkers { components[checker.Name()] = checker.Check(ctx) }
RunCheckers(components, checkers) ==
    IF checkers = <<>> THEN components
    ELSE LET c == Head(checkers)
         IN  RunCheckers([n \in DOMAIN components \cup {c.name} |->
                             IF n = c.name THEN c.status ELSE components[n]],
                         Tail(checkers))

\* The orders in which a range over the names may visit them.
Orders(names) ==
    {o \in [1..Cardinality(names) -> names] : \A n \in names : \E i \in DOMAIN o : o[i] = n}

\* One turn of the loop of rule 3.
Worse(worstStatus, status) ==
    IF worstStatus # StatusUp THEN worstStatus
    ELSE CASE status \in {StatusDown, StatusOutOfService} -> StatusDegraded
           [] status = StatusUnknown -> StatusUnknown
           [] status = StatusDegraded -> StatusDegraded
           [] OTHER -> worstStatus

RECURSIVE WorstAlong(_, _, _)
WorstAlong(worstStatus, components, order) ==
    IF order = <<>> THEN worstStatus
    ELSE WorstAlong(Worse(worstStatus, components[Head(order)]), components, Tail(order))

\* calculateOverallStatus, the range over the map visiting the names in the
\* given order.
calculateOverallStatus(components, order) ==
    IF "liveness" \in DOMAIN components /\ components["liveness"] # StatusUp THEN StatusDown
    ELSE IF "readiness" \in DOMAIN components /\ components["readiness"] # StatusUp
         THEN StatusDown
    ELSE WorstAlong(StatusUp, components,
                    SelectSeq(order, LAMBDA n : n \notin {"liveness", "readiness"}))

\* The components of Service.CheckHealth.
HealthComponents(checkers) ==
    RunCheckers([n \in {"liveness", "readiness"} |-> StatusUp], checkers)

\* Service.CheckReadiness.
CheckReadiness(checkers) ==
    LET components == RunCheckers([n \in {} |-> StatusUp], checkers)
        ready == ~\E n \in DOMAIN components :
                     components[n] \in {StatusDown, StatusOutOfService}
    IN  IF ready THEN StatusUp ELSE StatusOutOfService

\* Service.CheckLiveness.
CheckLiveness(checkers) == StatusUp

HealthResult(overall, code, components) ==
    [status |-> "health", overall |-> overall, code |-> code, components |-> components]

\* A request to one of the three health endpoints arrives.
HealthRequest(p, endpoint, checkers) ==
    /\ pc[p] = "idle"
    /\ req' = [req EXCEPT ![p] = [kind |-> "health", endpoint |-> endpoint,
                                  checkers |-> checkers]]
    /\ pc' = [pc EXCEPT ![p] = endpoint]
    /\ UNCHANGED <<store, bom, listed, calls, pre, priorA, result, doneA, nops, faults>>

\* Server.HealthHandler
HealthHandler(p) ==
    /\ pc[p] = "H_Health"
    /\ LET components == HealthComponents(req[p].checkers)
       IN  \E order \in Orders(DOMAIN components) :
              LET overall == calculateOverallStatus(components, order)
              IN  Finish(p, HealthResult(overall,
                         IF overall \in {StatusDown, StatusOutOfService} THEN 503 ELSE 200,
                         components))
    /\ UNCHANGED <<store, req, bom, listed, calls, pre, priorA, doneA, nops, faults>>

\* Server.LivenessHandler
LivenessHandler(p) ==
    /\ pc[p] = "H_Liveness"
    /\ LET overall == CheckLiveness(req[p].checkers)
       IN  Finish(p, HealthResult(overall, IF overall # StatusUp THEN 503 ELSE 200,
                                  [n \in {"liveness"} |-> StatusUp]))
    /\ UNCHANGED <<store, req, bom, listed, calls, pre, priorA, doneA, nops, faults>>

\* Server.ReadinessHandler
ReadinessHandler(p) ==
    /\ pc[p] = "H_Readiness"
    /\ LET overall == CheckReadiness(req[p].checkers)
       IN  Finish(p, HealthResult(overall, IF overall # StatusUp THEN 503 ELSE 200,
                                  [n \in {"readiness"} |-> overall]))
    /\ UNCHANGED <<store, req, bom, listed, calls, pre, priorA, doneA, nops, faults>>

NextHealth ==
    \/ \E endpoint \in {"H_Health", "H_Liveness", "H_Readiness"}, checkers \in CheckerLists :
          HealthRequest(Worker, endpoint, checkers)
    \/ HealthHandler(Worker)
    \/ LivenessHandler(Worker)
    \/ ReadinessHandler(Worker)
    \/ Return(Worker)

SpecHealth == Init /\ [][NextHealth]_vars

(***************************************************************************)
(* The get endpoint from the path variable on (internal/http/handlers.go), *)
(* with uploads before it that fill the bucket.                            *)
(***************************************************************************)
\* Server.GetByURN up to the call of the service: the path variable is
\* validated, a malformed one is answered at once.
ServerGetByURN(p, urn, version) ==
    IF URNValid(urn) THEN GetBOMByUrn(p, urn, version)
    ELSE /\ pc[p] = "idle"
         /\ req' = [req EXCEPT ![p] = [kind |-> "get", urn |-> urn, version |-> version]]
         /\ pre' = [pre EXCEPT ![p] = store]
         /\ priorA' = [priorA EXCEPT ![p] = doneA]
         /\ Finish(p, Outcome("bad-request", NoSerial, 0))
         /\ UNCHANGED <<store, bom, listed, calls, doneA, faults>>

\* Server.GetByURN: the response written for what GetBOMByUrn returned (code
\* 0: the goroutine panicked and no response is written).
GetResponse(r) ==
    CASE r.status = "bad-request" -> [code |-> 400, contentType |-> "problem details"]
      [] r.status = "notfound" -> [code |-> 404, contentType |-> "problem details"]
      [] r.status = "ok" -> [code |-> 200, contentType |-> CdxMediaType]
      [] r.status = "panic" -> [code |-> 0, contentType |-> ""]
      [] OTHER -> [code |-> 500, contentType |-> "problem details"]

\* Uploads and retrievals one at a time, the retrievals with any path
\* variable.
NextGet ==
    \/ NoneInFlight /\ nops < MaxOps /\ \E doc \in Docs : UploadBOM(Worker, doc)
    \/ NoneInFlight /\ UNCHANGED nops
         /\ \E urn \in SerialInputs, version \in VersionParams :
               ServerGetByURN(Worker, urn, version)
    \/ Step(Worker)

SpecGet == Init /\ [][NextGet]_vars

(***************************************************************************)
(* The three endpoints side by side (internal/http/handlers.go): searches  *)
(* and retrievals, then at most one upload, on a bucket that holds nothing *)
(* or one object.                                                          *)
(***************************************************************************)
\* Server.Upload up to the first storage call: the request is turned away,
\* or its document is dispatched on its case.
ServerUpload(p, rq, doc) ==
    /\ pc[p] = "idle"
    /\ IF UploadVerdict(rq).status = "accepted"
       THEN rq.head.serialNumber = doc.serialNumber
       ELSE doc = NoBytes
    /\ nops' = nops + 1
    /\ req' = [req EXCEPT ![p] = [kind |-> "upload", doc |-> doc, rq |-> rq]]
    /\ pre' = [pre EXCEPT ![p] = store]
    /\ priorA' = [priorA EXCEPT ![p] = doneA]
    /\ IF UploadVerdict(rq).status # "accepted"
       THEN /\ Finish(p, UploadVerdict(rq))
            /\ UNCHANGED bom
       ELSE /\ bom' = [bom EXCEPT ![p] =
                          [serialNumber |-> doc.serialNumber, version |-> doc.version]]
            /\ pc' = [pc EXCEPT ![p] =
                        CASE UploadCase(doc) = "A" -> "A_KeyExists"
                          [] UploadCase(doc) = "B" -> "B_GetObjectVersions"
                          [] OTHER -> "C_KeyExists"]
            /\ UNCHANGED result
    /\ UNCHANGED <<store, listed, calls, doneA, faults>>

InitFront ==
    /\ store \in {EmptyStore} \cup
                 {[k \in {uploadKey(U1, 1)} |-> TimedObject(k, t)] : t \in Ticks}
    /\ Idle
    /\ faults = TRUE

NextFront ==
    \/ NoneInFlight /\ nops = 0
         /\ \E rq \in UploadRequests, doc \in Docs \cup {NoBytes} : ServerUpload(Worker, rq, doc)
    \/ NoneInFlight /\ nops = 0 /\ \E after \in AfterParams : ServerSearch(Worker, after)
    \/ NoneInFlight /\ nops = 0 /\ UNCHANGED nops
         /\ \E urn \in SerialInputs, version \in VersionParams :
               ServerGetByURN(Worker, urn, version)
    \/ ServerSearch_Search(Worker)
    \/ Step(Worker)

SpecFront == InitFront /\ [][NextFront]_vars

(***************************************************************************)
(* The loop of uploadCaseSNInvalid without a bound on its turns            *)
(* (internal/service/upload.go): one upload without serial number on a     *)
(* bucket left by earlier uploads.                                         *)
(***************************************************************************)
\* The log of storage calls, holding the last MaxRetries turns of the loop.
LogTurn(p, c) ==
    calls' = [calls EXCEPT ![p] = IF Len(@) < MaxRetries THEN Append(@, c)
                                  ELSE Append(Tail(@), c)]

\* One turn of the loop: a serial number is generated and the key of its
\* version 1 is looked up; on a collision the loop takes another turn.
uploadCaseSNInvalid_Loop(p) ==
    /\ pc[p] \in {"A_Loop", "A_LoopAgain"}
    /\ \E u \in Serials, backendOK \in BackendOutcomes :
         LET key == uploadKey(u, 1)
         IN  /\ LogTurn(p, Call("head", key, NoBytes, backendOK))
             /\ bom' = [bom EXCEPT ![p] = [serialNumber |-> u, version |-> 1]]
             /\ IF ~backendOK
                THEN Finish(p, Failed)
                ELSE IF KeyExists(store, key)
                THEN /\ pc' = [pc EXCEPT ![p] = IF @ = "A_Loop" THEN "A_LoopAgain" ELSE "A_Loop"]
                     /\ UNCHANGED result
                ELSE /\ pc' = [pc EXCEPT ![p] = "A_UploadOriginal"]
                     /\ UNCHANGED result
    /\ UNCHANGED <<store, req, listed, pre, priorA, doneA, nops, faults>>

\* The turn that leaves the loop: the generator yields a serial number whose
\* version 1 is absent.
LoopExit(p) == uploadCaseSNInvalid_Loop(p) /\ pc'[p] = "A_UploadOriginal"

\* UploadBOM for a document without serial number, entering the loop.
UploadBOM_Loop(p, doc) ==
    /\ pc[p] = "idle"
    /\ UploadCase(doc) = "A"
    /\ nops' = nops + 1
    /\ req' = [req EXCEPT ![p] = [kind |-> "upload", doc |-> doc]]
    /\ bom' = [bom EXCEPT ![p] = [serialNumber |-> doc.serialNumber, version |-> doc.version]]
    /\ pre' = [pre EXCEPT ![p] = store]
    /\ priorA' = [priorA EXCEPT ![p] = doneA]
    /\ pc' = [pc EXCEPT ![p] = "A_Loop"]
    /\ UNCHANGED <<store, listed, calls, result, doneA, faults>>

\* A bucket after Case C uploads of (U1, 1) and (U2, 1).
StoredTwice ==
    LET doc == [serialNumber |-> U2, version |-> 1, body |-> "b1", enc |-> "client"]
    IN  Upload(StoredOnce, uploadKey(U2, 1), FormatInt(1), doc, "C")

InitLoop ==
    /\ store \in {EmptyStore, StoredOnce, StoredTwice}
    /\ Idle
    /\ faults = TRUE

StepLoop(p) ==
    \/ uploadCaseSNInvalid_Loop(p)
    \/ uploadCaseSNInvalid_UploadOriginal(p)
    \/ uploadCaseSNInvalid_UploadModified(p)
    \/ Return(p)

NextLoop ==
    \/ NoneInFlight /\ nops = 0 /\ \E doc \in Docs : UploadBOM_Loop(Worker, doc)
    \/ StepLoop(Worker)

\* Every storage call returns, and a serial number whose version 1 is absent
\* is generated in the end if there is one.
SpecLoop ==
    InitLoop /\ [][NextLoop]_vars /\ WF_vars(StepLoop(Worker)) /\ SF_vars(LoopExit(Worker))

(***************************************************************************)
(* Properties.                                                             *)
(***************************************************************************)
Done(p) == pc[p] = "done"
IsUpload(p, case) == req[p].kind = "upload" /\ UploadCase(req[p].doc) = case
\* No storage call of p met a backend failure.
AllCallsOK(p) == \A i \in 1..Len(calls[p]) : calls[p][i].ok
\* The bucket differs from st at most in the keys ks.
SameExcept(st, ks) ==
    /\ DOMAIN st \subseteq DOMAIN store
    /\ DOMAIN store \subseteq DOMAIN st \cup ks
    /\ \A k \in DOMAIN st \ ks : store[k] = st[k]

\* C1: an upload without serial number whose storage calls all succeed
\* returns version 1 and the generated serial number, whatever version the
\* document declared, and writes exactly two objects: <serial>-original with
\* the uploaded bytes and <serial>-1 with the document serialized again
\* under the generated serial number and version 1.
C1_CaseA_TwoObjects ==
    \A p \in Procs :
        (Done(p) /\ IsUpload(p, "A") /\ AllCallsOK(p)) =>
            LET sn   == result[p].serialNumber
                doc  == req[p].doc
                mod  == [serialNumber |-> sn, version |-> 1, body |-> doc.body, enc |-> "cdx"]
                kOrg == sn \o <<"-", "original">>
                kOne == sn \o <<"-", "1">>
            IN  /\ result[p].status = "success"
                /\ result[p].version = 1
                /\ sn \in Serials
                /\ calls[p][Len(calls[p]) - 2] = Call("head", kOne, NoBytes, TRUE)
                /\ Writes(p) = <<Call("put", kOrg, doc, TRUE), Call("put", kOne, mod, TRUE)>>
                /\ store[kOrg].bytes = doc
                /\ store[kOne].bytes = mod
                /\ SameExcept(pre[p], {kOrg, kOne})

C1_Witness ==
    \E p \in Procs :
        /\ Done(p) /\ IsUpload(p, "A") /\ AllCallsOK(p)
        /\ req[p].doc.version = 2
        /\ result[p].status = "success"
        /\ Len(calls[p]) = 4

\* C3: an upload with serial number S and version v >= 1 whose key S-v is not
\* in the bucket, and whose storage calls succeed, writes exactly one
\* object, at key S-v, holding the uploaded bytes, and returns success with
\* (S, v).
C3_CaseC_NewKey ==
    \A p \in Procs :
        (Done(p) /\ IsUpload(p, "C") /\ AllCallsOK(p)) =>
            LET doc == req[p].doc
                key == doc.serialNumber \o <<"-">> \o FormatUint(doc.version)
            IN  key \notin DOMAIN pre[p] =>
                    /\ result[p] = Outcome("success", doc.serialNumber, doc.version)
                    /\ Writes(p) = <<Call("put", key, doc, TRUE)>>
                    /\ key \in DOMAIN store /\ store[key].bytes = doc
                    /\ SameExcept(pre[p], {key})

C3_Witness ==
    \E p \in Procs :
        /\ Done(p) /\ IsUpload(p, "C") /\ AllCallsOK(p)
        /\ uploadKey(req[p].doc.serialNumber, req[p].doc.version) \notin DOMAIN pre[p]
        /\ req[p].doc.version = MaxInt
        /\ req[p].doc.enc = "client"
        /\ DOMAIN pre[p] # {}

\* C4: an upload with serial number S and version v >= 1 whose key S-v is
\* already in the bucket issues no write, leaves the bucket unchanged and
\* returns the conflict with exactly the requested (S, v).
C4_CaseC_Conflict ==
    \A p \in Procs :
        (Done(p) /\ IsUpload(p, "C") /\ AllCallsOK(p)) =>
            LET doc == req[p].doc
                key == doc.serialNumber \o <<"-">> \o FormatUint(doc.version)
            IN  key \in DOMAIN pre[p] =>
                    /\ result[p] = Outcome("conflict", doc.serialNumber, doc.version)
                    /\ \A i \in 1..Len(calls[p]) : calls[p][i].op # "put"
                    /\ store = pre[p]

C4_Witness ==
    \E p \in Procs :
        /\ Done(p) /\ IsUpload(p, "C") /\ AllCallsOK(p)
        /\ uploadKey(req[p].doc.serialNumber, req[p].doc.version) \in DOMAIN pre[p]
        /\ result[p].status = "conflict"
        /\ pre[p][uploadKey(req[p].doc.serialNumber, req[p].doc.version)].bytes # req[p].doc

\* The numeric versions a bucket holds for a serial number.
NumericVersions(st, sn) ==
    {v \in MinInt..MaxInt : (sn \o <<"-">> \o FormatInt(v)) \in DOMAIN st}
Max(set) == CHOOSE m \in set : \A x \in set : x <= m
NoObjectUnder(st, sn) == \A k \in DOMAIN st : ~HasPrefix(k, sn)
Key(sn, v) == sn \o <<"-">> \o FormatInt(v)

\* C2: an upload with serial number S and no version is assigned version 1
\* when the bucket holds no object under S, and max+1 when it holds the
\* numeric versions {v1..vn}; in both cases exactly one object is written,
\* at S-<assigned version>, and no S-original.
C2_CaseB_NextVersion ==
    \A p \in Procs :
        (Done(p) /\ IsUpload(p, "B") /\ AllCallsOK(p)) =>
            LET doc  == req[p].doc
                sn   == doc.serialNumber
                nums == NumericVersions(pre[p], sn)
            IN  (NoObjectUnder(pre[p], sn) \/ nums # {}) =>
                    LET v   == IF NoObjectUnder(pre[p], sn) THEN 1 ELSE Max(nums) + 1
                        mod == [serialNumber |-> sn, version |-> v, body |-> doc.body,
                                enc |-> "cdx"]
                    IN  /\ result[p] = Outcome("success", sn, v)
                        /\ Writes(p) = <<Call("put", Key(sn, v), mod, TRUE)>>
                        /\ SameExcept(pre[p], {Key(sn, v)})

\* C5: the same document with explicit identity (S, v) uploaded again after
\* an upload of it succeeded is rejected as a conflict and writes nothing;
\* the first upload, on a bucket without S-v, succeeds and writes S-v.
C5_Reupload_Conflict ==
    \A p \in Procs :
        (Done(p) /\ IsUpload(p, "C") /\ AllCallsOK(p)) =>
            LET doc == req[p].doc
                key == Key(doc.serialNumber, doc.version)
            IN  /\ key \notin DOMAIN pre[p] =>
                    /\ result[p].status = "success"
                    /\ store[key] = [bytes |-> doc, version |-> FormatInt(doc.version), by |-> "C"]
                /\ (key \in DOMAIN pre[p] /\ pre[p][key].by = "C" /\ pre[p][key].bytes = doc) =>
                    /\ result[p].status = "conflict"
                    /\ Writes(p) = <<>>
                    /\ store[key] = pre[p][key]

C5_Witness ==
    \E p \in Procs :
        /\ Done(p) /\ IsUpload(p, "C") /\ AllCallsOK(p)
        /\ Key(req[p].doc.serialNumber, req[p].doc.version) \in DOMAIN pre[p]
        /\ pre[p][Key(req[p].doc.serialNumber, req[p].doc.version)].by = "C"
        /\ pre[p][Key(req[p].doc.serialNumber, req[p].doc.version)].bytes = req[p].doc
        /\ result[p].status = "conflict"

\* C6: with uploads one at a time, no write targets a key that is already in
\* the bucket, and an object, once stored, never changes.
C6_WriteOnce ==
    [][/\ \A k \in DOMAIN store : k \in DOMAIN store' /\ store'[k] = store[k]
       /\ \A p \in Procs :
            (Len(calls'[p]) = Len(calls[p]) + 1 /\ calls'[p][Len(calls'[p])].op = "put")
                => calls'[p][Len(calls'[p])].key \notin DOMAIN store]_vars

\* C7 (as stated): two uploads without serial number that both succeed are
\* assigned distinct serial numbers, each with version 1.
C7_DistinctSerials ==
    \A p \in Procs :
        (Done(p) /\ IsUpload(p, "A") /\ result[p].status = "success") =>
            /\ result[p].version = 1
            /\ result[p].serialNumber \notin doneA
            /\ \A q \in Procs \ {p} :
                 (Done(q) /\ IsUpload(q, "A") /\ result[q].status = "success")
                     => result[q].serialNumber # result[p].serialNumber

\* C7 (amended): an upload without serial number that succeeds is assigned
\* version 1 and a serial number that no such upload that returned before it
\* started was assigned, and it writes no key such an upload wrote.
C7_DistinctSerials_NoOverlap ==
    \A p \in Procs :
        (Done(p) /\ IsUpload(p, "A") /\ result[p].status = "success") =>
            /\ result[p].version = 1
            /\ result[p].serialNumber \notin priorA[p]
            /\ \A i \in 1..Len(Writes(p)), sn \in priorA[p] :
                 Writes(p)[i].key \notin {sn \o <<"-", "original">>, sn \o <<"-", "1">>}

C7_Witness ==
    \E p \in Procs :
        /\ Done(p) /\ IsUpload(p, "A") /\ result[p].status = "success"
        /\ priorA[p] # {}
        /\ Len(calls[p]) = 4

IsGet(p) == req[p].kind = "get"
\* The last storage call of p.
Fetched(p) == calls[p][Len(calls[p])]

\* C8 (as stated): after an upload with explicit identity (S, v) stored the
\* bytes b, a retrieval of S with version v returns exactly b.
C8_RoundTrip_Identical ==
    \A p \in Procs, sn \in Serials, v \in 1..MaxInt :
        (Done(p) /\ IsGet(p) /\ result[p].status = "ok"
            /\ Len(calls[p]) = 1 /\ req[p].urn = sn /\ req[p].version = FormatInt(v)
            /\ Key(sn, v) \in DOMAIN store /\ store[Key(sn, v)].by = "C")
        => result[p].body = store[Key(sn, v)].bytes

\* C8 (amended): after an upload with explicit identity (S, v) stored the
\* bytes b, the object S-v holds b, a document declaring (S, v), and a
\* retrieval of S with version v returns the JSON value of b written out
\* again by encoding/json from a generic map: the same serial number and
\* content in encoding/json's layout, the numbers as float64 holds them
\* (exact up to 2^MantBits, the largest int rounded up), and so b itself
\* exactly when b has that layout and its numbers are exact in float64.
C8_RoundTrip_Reencoded ==
    \A p \in Procs, sn \in Serials, v \in 1..MaxInt :
        (Done(p) /\ IsGet(p) /\ AllCallsOK(p)
            /\ Len(calls[p]) = 1 /\ req[p].urn = sn /\ req[p].version = FormatInt(v)
            /\ Key(sn, v) \in DOMAIN store /\ store[Key(sn, v)].by = "C")
        => LET b == store[Key(sn, v)].bytes
           IN  /\ b \in Docs /\ b.serialNumber = sn /\ b.version = v
               /\ result[p].status = "ok"
               /\ result[p].body.serialNumber = sn
               /\ result[p].body.body = b.body
               /\ result[p].body.enc = "generic"
               /\ v <= 2 ^ MantBits => result[p].body.version = v
               /\ v = MaxInt => result[p].body.version = MaxInt + 1
               /\ (result[p].body = b) <=> (b.enc = "generic" /\ result[p].body.version = v)

C8_Witness ==
    \E p \in Procs :
        /\ Done(p) /\ IsGet(p) /\ result[p].status = "ok" /\ Len(calls[p]) = 1
        /\ Fetched(p).key \in DOMAIN store
        /\ store[Fetched(p).key].by = "C"
        /\ store[Fetched(p).key].bytes.enc = "client"
        /\ result[p].body # store[Fetched(p).key].bytes

Matching(st, sn) == {k \in DOMAIN st : HasPrefix(k, sn)}
Remainders(st, sn) ==
    {k \in Matching(st, sn) : HasPrefix(k, sn \o <<"-">>)}
Remainder(k, sn) == SubSeq(k, Len(sn) + 2, Len(k))
IsDecimal(s) == Atoi(s).ok
Ascending(seq) == \A i \in 1..(Len(seq) - 1) : seq[i] <= seq[i + 1]

\* C10: a listing of S that reaches the backend returns NotFound when no key
\* has prefix S; otherwise it fails when some matching key is S- followed by
\* neither "original" nor a decimal integer (or is not S- followed by
\* anything), and else returns the integers after S-, one per key, sorted
\* ascending, with the flag telling whether S-original is there.
C10_ListVersions ==
    \A p \in Procs :
        (req[p].kind = "get" /\ listed[p] # NoList /\ calls[p][1].ok) =>
            LET sn   == req[p].urn
                r    == listed[p]
                keys == Matching(store, sn)
                nums == {k \in keys : k # sn \o <<"-", "original">>}
                good == \A k \in nums :
                            k \in Remainders(store, sn) /\ IsDecimal(Remainder(k, sn))
            IN  /\ (r.err = "notfound") <=> (keys = {})
                /\ (r.err = "error") <=> (keys # {} /\ ~good)
                /\ (r.err = "nil") =>
                    /\ r.hasOriginal <=> ((sn \o <<"-", "original">>) \in keys)
                    /\ Ascending(r.versions)
                    /\ Len(r.versions) = Cardinality(nums)
                    /\ \A v \in MinInt..MaxInt :
                         Cardinality({i \in 1..Len(r.versions) : r.versions[i] = v})
                           = Cardinality({k \in nums : Atoi(Remainder(k, sn)).val = v})
                /\ (keys = {U1 \o <<"-", "1">>, U1 \o <<"-", "2">>, U1 \o <<"-", "original">>}) =>
                    (r.err = "nil" /\ r.versions = <<1, 2>> /\ r.hasOriginal)
                /\ (keys = {U1 \o <<"-", "abc">>}) => r.err = "error"

C10_Witness ==
    \E p \in Procs :
        /\ req[p].kind = "get" /\ listed[p] # NoList /\ calls[p][1].ok
        /\ req[p].urn = U1
        /\ Matching(store, U1) = {U1 \o <<"-", "9">>, U1 \o <<"-", "1", "0">>,
                                  U1 \o <<"-", "2">>, U1 \o <<"-", "original">>}
        /\ listed[p].versions = <<2, 9, 10>>
        /\ listed[p].hasOriginal

\* C11: starting from an empty bucket, after any sequence of uploads every
\* key in the bucket is <serialNumber>-<decimal integer >= 1> or
\* <serialNumber>-original.
C11_NamingInvariant ==
    \A k \in DOMAIN store :
        \E sn \in Serials :
            \/ k = sn \o <<"-", "original">>
            \/ \E v \in 1..MaxInt : k = sn \o <<"-">> \o FormatUint(v)

\* The serial numbers of SerialInputs that are urn:uuid:<UUID>.
WellFormedSerials ==
    Serials \cup {<<"urn", ":", "uuid", ":", "{", "aaaaaaaa", "-", "aaaa", "}">>}
IsRejected(p) == req[p].kind = "rejected"
\* The Content-Type header names the CycloneDX JSON media type.
IsCdxHeader(h) == ~h.blank /\ h.parses /\ h.type = "application/vnd.cyclonedx+json"
\* The schema version the header declares.
Declared(h) == IF h.version = "absent" THEN "1.6" ELSE h.version
\* The decoded document fails a structural check or the schema.
FailsValidation(rq) ==
    \/ rq.head.bomFormat # "CycloneDX"
    \/ rq.head.specVersion # "1.6"
    \/ rq.head.serialNumber \notin WellFormedSerials \cup {NoSerial}
    \/ ~rq.schemaValid

\* C12: the upload endpoint answers 415 for a content type other than
\* application/vnd.cyclonedx+json, 400 for a declared schema version that is
\* not supported, 400 for a failed structural or schema check, 409 with the
\* colliding serial number and version for an exact-identity collision, 500
\* when a storage call fails, and 201 with serialNumber, version and stats
\* on success.
C12_UploadStatuses ==
    \A p \in Procs :
        Done(p) =>
            LET resp == UploadResponse(result[p])
            IN  /\ IsRejected(p) =>
                    LET rq == req[p].rq
                        h  == rq.contentType
                    IN  /\ ~IsCdxHeader(h) => resp.code = 415
                        /\ (IsCdxHeader(h) /\ Declared(h) # "1.6") => resp.code = 400
                        /\ (IsCdxHeader(h) /\ Declared(h) = "1.6" /\ rq.decodes) =>
                              (FailsValidation(rq) /\ resp.code = 400)
                /\ req[p].kind = "upload" =>
                    LET doc == req[p].doc
                    IN  /\ (IsUpload(p, "C") /\ AllCallsOK(p)
                              /\ Key(doc.serialNumber, doc.version) \in DOMAIN pre[p]) =>
                              /\ resp.code = 409
                              /\ resp.fields = {"serial-number", "version"}
                              /\ resp.serialNumber = doc.serialNumber
                              /\ resp.version = doc.version
                        /\ ~AllCallsOK(p) => resp.code = 500
                        /\ (resp.code = 201) <=> (result[p].status = "success")
                        /\ resp.code = 201 =>
                              /\ AllCallsOK(p)
                              /\ resp.fields = {"serialNumber", "version", "stats"}
                              /\ resp.serialNumber = result[p].serialNumber
                              /\ resp.version = result[p].version
                        /\ resp.code \in {201, 409, 500}

C12_Witness ==
    \E p \in Procs :
        /\ Done(p) /\ IsUpload(p, "C") /\ AllCallsOK(p)
        /\ Key(req[p].doc.serialNumber, req[p].doc.version) \in DOMAIN pre[p]
        /\ UploadResponse(result[p]).code = 409

\* C13: the structural checks run in the order format, specVersion,
\* serialNumber: the reason reported for a document is that of the first
\* check it fails in this order.
C13_CheckOrder ==
    \A p \in Procs :
        (Done(p) /\ IsRejected(p) /\ IsCdxHeader(req[p].rq.contentType)
            /\ Declared(req[p].rq.contentType) = "1.6" /\ req[p].rq.decodes) =>
            LET b == req[p].rq.head
            IN  /\ b.bomFormat # "CycloneDX" => result[p].reason = "required format"
                /\ (b.bomFormat = "CycloneDX" /\ b.specVersion # "1.6") =>
                      result[p].reason = "required version"
                /\ (b.bomFormat = "CycloneDX" /\ b.specVersion = "1.6"
                      /\ b.serialNumber \notin WellFormedSerials \cup {NoSerial}) =>
                      result[p].reason = "serial number not valid"

IsSearch(p) == req[p].kind = "search"
\* The keys of the objects modified after the 'after' of the search of p.
ModifiedAfter(p) ==
    {k \in DOMAIN store : store[k].modified > Atoi(req[p].after).val * TicksPerSecond}
HasDash(k) == \E i \in 1..Len(k) : k[i] = "-"
\* e is the key k cut at its last dash.
IsSplitOf(e, k) ==
    /\ e.serialNumber \o <<"-">> \o e.version = k
    /\ ~HasDash(e.version)

\* C14: a search whose listing succeeds, on keys that all hold a dash,
\* returns one entry per object modified strictly after the timestamp and
\* no other, whatever the prefix of its key; each entry is the key cut at
\* its last dash, so an object under -original has version "original".
C14_Search ==
    \A p \in Procs :
        (Done(p) /\ IsSearch(p) /\ Len(calls[p]) = 1 /\ AllCallsOK(p)
            /\ \A k \in ModifiedAfter(p) : HasDash(k)) =>
            LET res == result[p].res
            IN  /\ result[p].status = "ok"
                /\ Len(res) = Cardinality(ModifiedAfter(p))
                /\ \A k \in ModifiedAfter(p) : \E i \in 1..Len(res) : IsSplitOf(res[i], k)
                /\ \A i \in 1..Len(res) : \E k \in ModifiedAfter(p) : IsSplitOf(res[i], k)
                /\ (U2 \o <<"-", "original">>) \in ModifiedAfter(p) =>
                      \E i \in 1..Len(res) :
                          res[i] = [serialNumber |-> U2, version |-> <<"original">>]

C14_Witness ==
    \E p \in Procs :
        /\ Done(p) /\ IsSearch(p) /\ AllCallsOK(p)
        /\ req[p].after = <<"1">>
        /\ DOMAIN store = {U1 \o <<"-", "1">>, U2 \o <<"-", "original">>}
        /\ store[U1 \o <<"-", "1">>].modified = TicksPerSecond
        /\ store[U2 \o <<"-", "original">>].modified = TicksPerSecond + 1
        /\ result[p].res = <<[serialNumber |-> U2, version |-> <<"original">>]>>

\* C15: a search whose listing returns a key without a dash, or a key whose
\* part after the last dash is neither a version number nor "original",
\* fails as a whole with an internal error and returns no entries.
C15_SearchBadKey ==
    \A p \in Procs :
        (Done(p) /\ IsSearch(p) /\ Len(calls[p]) = 1 /\ AllCallsOK(p)) =>
            ((\E k \in ModifiedAfter(p) :
                 \/ ~HasDash(k)
                 \/ LET suffix == SubSeq(k, LastIndex(k, "-") + 1, Len(k))
                    IN  suffix # <<"original">> /\ ~Atoi(suffix).ok)
             => (result[p].status = "error" /\ result[p].res = <<>>))

\* The positions of a component list that hold a cryptographic asset with
\* crypto properties, and those among them of asset type a.
CountedAt(l) ==
    {i \in 1..Len(l) : l[i].type = "cryptographic-asset" /\ l[i].hasCryptoProperties}
CountedOf(l, a) == {i \in CountedAt(l) : l[i].assetType = a}

\* C16: total is the number of components typed cryptographic-asset whose
\* crypto properties are present; each of the four sub-counters is the
\* number of counted components of its asset type; the sub-counters sum to
\* at most total, and to total exactly when every counted component has one
\* of the four asset types; an absent component list gives all zeros.
C16_Stats ==
    \A p \in Procs :
        (Done(p) /\ req[p].kind = "stats") =>
            LET l   == req[p].components.list
                st  == result[p].stats
                sum == st.algorithms + st.certificates + st.protocols + st.related
            IN  /\ st.total = Cardinality(CountedAt(l))
                /\ st.algorithms = Cardinality(CountedOf(l, "algorithm"))
                /\ st.certificates = Cardinality(CountedOf(l, "certificate"))
                /\ st.protocols = Cardinality(CountedOf(l, "protocol"))
                /\ st.related = Cardinality(CountedOf(l, "related-crypto-material"))
                /\ sum <= st.total
                /\ (sum = st.total) <=>
                      (\A i \in CountedAt(l) : l[i].assetType \in
                          {"algorithm", "certificate", "protocol", "related-crypto-material"})
                /\ req[p].components.isNil =>
                      st = [total |-> 0, algorithms |-> 0, certificates |-> 0,
                            protocols |-> 0, related |-> 0]

C16_Witness ==
    \E p \in Procs :
        /\ Done(p) /\ req[p].kind = "stats"
        /\ Len(req[p].components.list) = MaxComponents
        /\ \E i \in 1..MaxComponents : req[p].components.list[i].type = "library"
        /\ \E i \in 1..MaxComponents :
             /\ req[p].components.list[i].type = "cryptographic-asset"
             /\ ~req[p].components.list[i].hasCryptoProperties
        /\ result[p].stats.total = 1
        /\ result[p].stats.certificates = 1

\* Process p is in an upload with explicit identity whose key was not in
\* the bucket when it started.
FreshCaseC(p) ==
    /\ IsUpload(p, "C")
    /\ Key(req[p].doc.serialNumber, req[p].doc.version) \notin DOMAIN pre[p]
SameIdentity(p, q) ==
    /\ req[p].doc.serialNumber = req[q].doc.serialNumber
    /\ req[p].doc.version = req[q].doc.version

\* C17: when two uploads of the same identity (S, v) are in flight on a
\* bucket without S-v and both have passed the existence check before
\* either wrote, each write that the backend accepts lands on S-v and
\* reports success: the second replaces the content of the first, whose
\* success stands.
C17_LastWriteWins ==
    [][\A p \in Procs : \A q \in Procs \ {p} :
          (/\ FreshCaseC(p) /\ FreshCaseC(q) /\ SameIdentity(p, q)
           /\ pc[p] = "C_Upload" /\ pc[q] \in {"C_Upload", "done"}
           /\ AllCallsOK(q)
           /\ pc'[p] = "done" /\ AllCallsOK(p)')
          => LET k == Key(req[p].doc.serialNumber, req[p].doc.version)
             IN  /\ result'[p] = Outcome("success", req[p].doc.serialNumber, req[p].doc.version)
                 /\ store'[k].bytes = req[p].doc
                 /\ Done(q) =>
                       /\ result'[q] = Outcome("success", req[q].doc.serialNumber,
                                               req[q].doc.version)
                       /\ Writes(q) = <<Call("put", k, req[q].doc, TRUE)>>
                       /\ store[k].bytes = req[q].doc]_vars

C17_Witness ==
    \E p \in Procs : \E q \in Procs \ {p} :
        /\ Done(p) /\ Done(q)
        /\ FreshCaseC(p) /\ FreshCaseC(q) /\ SameIdentity(p, q)
        /\ result[p].status = "success" /\ result[q].status = "success"
        /\ req[p].doc # req[q].doc
        /\ store[Key(req[p].doc.serialNumber, req[p].doc.version)].bytes = req[p].doc

IsHealth(p, endpoint) == req[p].kind = "health" /\ req[p].endpoint = endpoint

\* C18: the health endpoint answers 200 exactly when the overall status is
\* UP or DEGRADED, and 503 for every other overall status.
C18_HealthCode ==
    \A p \in Procs :
        (Done(p) /\ IsHealth(p, "H_Health")) =>
            /\ result[p].code \in {200, 503}
            /\ (result[p].code = 200) <=> (result[p].overall \in {"UP", "DEGRADED"})

\* Rank of a component status under UP < DEGRADED < UNKNOWN, DOWN and
\* OUT_OF_SERVICE counting as DEGRADED.
Severity(status) ==
    CASE status = "UP" -> 0
      [] status = "UNKNOWN" -> 2
      [] OTHER -> 1

\* C19: the overall status is DOWN if liveness or readiness is not UP, and
\* otherwise the worst status among the remaining components under
\* UP < DEGRADED < UNKNOWN (DOWN and OUT_OF_SERVICE counting as DEGRADED),
\* whatever the order in which the components are visited.
C19_OverallStatus ==
    \A p \in Procs :
        (Done(p) /\ IsHealth(p, "H_Health")) =>
            LET components == result[p].components
                others     == DOMAIN components \ {"liveness", "readiness"}
                worst      == IF others = {} THEN 0
                              ELSE Max({Severity(components[n]) : n \in others})
            IN  IF components["liveness"] # "UP" \/ components["readiness"] # "UP"
                THEN result[p].overall = "DOWN"
                ELSE result[p].overall =
                        (CASE worst = 0 -> "UP" [] worst = 1 -> "DEGRADED" [] OTHER -> "UNKNOWN")

\* C20: liveness is UP (200) whatever the registered checkers report;
\* readiness is OUT_OF_SERVICE (503) exactly when at least one registered
\* checker reports DOWN or OUT_OF_SERVICE, and UP (200) otherwise.
C20_LivenessReadiness ==
    \A p \in Procs :
        /\ (Done(p) /\ IsHealth(p, "H_Liveness")) =>
              (result[p].overall = "UP" /\ result[p].code = 200)
        /\ (Done(p) /\ IsHealth(p, "H_Readiness")) =>
              LET cs   == req[p].checkers
                  down == \E i \in 1..Len(cs) : cs[i].status \in {"DOWN", "OUT_OF_SERVICE"}
              IN  IF down
                  THEN result[p].overall = "OUT_OF_SERVICE" /\ result[p].code = 503
                  ELSE result[p].overall = "UP" /\ result[p].code = 200

\* What the store reported to the retrieval of p, read off its last storage
\* call and the bucket.
StoreNotFound(p) ==
    /\ calls[p] # <<>>
    /\ Fetched(p).ok
    /\ \/ Fetched(p).op = "list" /\ ListObjects(store, req[p].urn) = {}
       \/ Fetched(p).op = "get" /\ Fetched(p).key \notin DOMAIN store
StoreError(p) ==
    /\ calls[p] # <<>>
    /\ \/ ~Fetched(p).ok
       \/ Fetched(p).op = "list" /\ GetObjectVersions(store, req[p].urn).err = "error"

\* C21: the get endpoint answers 400 for a URN that is not urn:uuid:<valid
\* UUID>, 404 when the store reports not-found for the lineage or for the
\* exact key, 500 for any other storage error, and 200 with content type
\* application/vnd.cyclonedx+json otherwise.
C21_GetStatuses ==
    \A p \in Procs :
        (Done(p) /\ IsGet(p)) =>
            LET resp == GetResponse(result[p])
            IN  IF ~URNValid(req[p].urn) THEN resp.code = 400
                ELSE IF StoreNotFound(p) THEN resp.code = 404
                ELSE IF StoreError(p) THEN resp.code = 500
                ELSE resp.code = 200 /\ resp.contentType = "application/vnd.cyclonedx+json"

\* C22: in an upload without serial number the -original object is written
\* before the -1 object; if the write of -1 fails after -original was
\* written, the upload returns the error and the -original object stays in
\* the bucket.
C22_CaseA_NoRollback ==
    \A p \in Procs :
        IsUpload(p, "A") =>
            LET sn == bom[p].serialNumber
            IN  /\ \A i \in 1..Len(calls[p]) :
                      (calls[p][i].op = "put" /\ calls[p][i].key = uploadKey(sn, 1)) =>
                          /\ i > 1
                          /\ calls[p][i - 1] = Call("put", sn \o <<"-", "original">>, req[p].doc, TRUE)
                          /\ \A j \in 1..(i - 2) : calls[p][j].op # "put"
                /\ (Done(p) /\ Len(Writes(p)) = 1 /\ ~Fetched(p).ok /\ Fetched(p).op = "put") =>
                      /\ result[p] = Failed
                      /\ (sn \o <<"-", "original">>) \in DOMAIN store
                      /\ store[sn \o <<"-", "original">>].bytes = req[p].doc
                      /\ uploadKey(sn, 1) \notin DOMAIN store

C22_Witness ==
    \E p \in Procs :
        /\ IsUpload(p, "A") /\ Done(p)
        /\ Len(Writes(p)) = 1
        /\ Fetched(p) = Call("put", uploadKey(bom[p].serialNumber, 1),
                             Encode(req[p].doc, bom[p].serialNumber, 1), FALSE)
        /\ (bom[p].serialNumber \o <<"-", "original">>) \in DOMAIN store

\* The 'after' parameter is missing, not a number or negative.
BadAfter(after) ==
    LET body == IF after # <<>> /\ after[1] \in {"+", "-"} THEN Tail(after) ELSE after
    IN  \/ body = <<>>
        \/ \E i \in 1..Len(body) : body[i] \notin DigitSet
        \/ after[1] = "-" /\ \E i \in 1..Len(body) : body[i] # "0"

\* The request of p fails one of the checks made before the storage.
TurnedAway(p) ==
    \/ /\ req[p].kind = "upload"
       /\ LET rq == req[p].rq
          IN  \/ ~IsCdxHeader(rq.contentType)
              \/ Declared(rq.contentType) # "1.6"
              \/ rq.decodes /\ FailsValidation(rq)
    \/ req[p].kind = "search" /\ BadAfter(req[p].after)
    \/ req[p].kind = "get" /\ req[p].urn \notin WellFormedSerials

\* C23: a request rejected at validation makes no storage call and leaves
\* the bucket unchanged: an upload with a wrong content type, an unsupported
\* declared version, a failed structural check or a failed schema check; a
\* search with a missing, non-numeric or negative 'after' (0 is accepted); a
\* retrieval with a malformed URN.
C23_RejectedNoStorage ==
    \A p \in Procs :
        /\ TurnedAway(p) => (calls[p] = <<>> /\ store = pre[p] /\ Done(p))
        /\ (req[p].kind = "search" /\ req[p].after = <<"0">> /\ Done(p)) =>
              (Len(calls[p]) = 1 /\ calls[p][1].op = "search")

C23_Witness ==
    \E p \in Procs :
        /\ Done(p) /\ req[p].kind = "upload" /\ store # EmptyStore
        /\ IsCdxHeader(req[p].rq.contentType) /\ Declared(req[p].rq.contentType) = "1.6"
        /\ req[p].rq.decodes /\ uploadInputChecks(req[p].rq.head, "1.6") = "nil"
        /\ ~req[p].rq.schemaValid
        /\ calls[p] = <<>>

InLoop(p) == pc[p] \in {"A_Loop", "A_LoopAgain"}
SomeSerialFree == \E u \in Serials : uploadKey(u, 1) \notin DOMAIN store

\* C24: in the loop of an upload without serial number, if every KeyExists
\* call returns and the generator eventually yields a serial number whose -1
\* key is absent, the upload leaves the loop and eventually completes; a
\* backend error from KeyExists inside the loop ends the upload at once
\* with that error and no write.
C24_LoopTerminates ==
    /\ \A p \in Procs : (InLoop(p) /\ SomeSerialFree) ~> Done(p)
    /\ [](\A p \in Procs :
            (IsUpload(p, "A") /\ calls[p] # <<>> /\ Fetched(p).op = "head" /\ ~Fetched(p).ok) =>
                (Done(p) /\ result[p] = Failed /\ Writes(p) = <<>> /\ store = pre[p]))

C24_Witness ==
    \E p \in Procs :
        /\ IsUpload(p, "A") /\ Done(p) /\ result[p].status = "success"
        /\ Len(calls[p]) = MaxRetries + 2
        /\ calls[p][1].op = "head" /\ calls[p][1].key \in DOMAIN pre[p]
        /\ pre[p] # EmptyStore

\* C25: in every bucket reachable through uploads, an upload with serial
\* number S and no version, and a retrieval of the latest version of S,
\* finish with a defined result (success, NotFound or an error value):
\* whenever the listing succeeds, the list of numeric versions is not empty.
C25_DefinedResult ==
    \A p \in Procs :
        (IsUpload(p, "B") \/ IsGet(p)) =>
            /\ listed[p].err = "nil" => listed[p].versions # <<>>
            /\ Done(p) => result[p].status \in {"success", "ok", "notfound", "error"}

\* C26: two concurrent uploads with the same serial number S and no version
\* that both succeed are assigned different versions, so both documents are
\* retrievable and neither overwrites the other.
C26_ConcurrentCaseB ==
    \A p, q \in Procs :
        (/\ p # q
         /\ Done(p) /\ IsUpload(p, "B") /\ result[p].status = "success"
         /\ Done(q) /\ IsUpload(q, "B") /\ result[q].status = "success"
         /\ req[p].doc.serialNumber = req[q].doc.serialNumber) =>
            /\ result[p].version # result[q].version
            /\ \A r \in {p, q} :
                 /\ Key(result[r].serialNumber, result[r].version) \in DOMAIN store
                 /\ store[Key(result[r].serialNumber, result[r].version)].bytes =
                       Encode(req[r].doc, result[r].serialNumber, result[r].version)

\* C27: the serial number generated by an upload without serial number
\* names a fresh lineage: at the time of its two writes the bucket holds no
\* object of any version, and no -original object, under that serial number,
\* so after the upload the lineage consists of exactly the -original and -1
\* objects this upload wrote.
C27_FreshLineage ==
    \A p \in Procs :
        (IsUpload(p, "A") /\ pc[p] \in {"A_UploadOriginal", "A_UploadModified"}) =>
            LET sn == bom[p].serialNumber
            IN  /\ pc[p] = "A_UploadOriginal" => ListObjects(store, sn) = {}
                /\ pc[p] = "A_UploadModified" =>
                      /\ ListObjects(pre[p], sn) = {}
                      /\ ListObjects(store, sn) = {sn \o <<"-", "original">>}

\* C28: after any sequence of uploads, every object stored under a key S-v
\* with v numeric declares serial number S and version v; the -original
\* object is the only one whose content may declare another identity or
\* none.
C28_EmbeddedIdentity ==
    \A k \in DOMAIN store :
        \/ \E sn \in Serials : k = sn \o <<"-", "original">>
        \/ /\ store[k].bytes.serialNumber \in Serials
           /\ store[k].bytes.version \in MinInt..MaxInt
           /\ k = Key(store[k].bytes.serialNumber, store[k].bytes.version)

C28_Witness ==
    \E sn \in Serials :
        /\ Key(sn, 1) \in DOMAIN store /\ store[Key(sn, 1)].by = "A"
        /\ Key(sn, 2) \in DOMAIN store /\ store[Key(sn, 2)].by = "B"
        /\ (sn \o <<"-", "original">>) \in DOMAIN store
        /\ store[sn \o <<"-", "original">>].bytes.serialNumber = NoSerial
        /\ store[sn \o <<"-", "original">>].bytes.version = 2

\* C29: an upload is answered with 500 only if a storage call (existence
\* check, listing or write) failed; every rejection caused by the content of
\* the request alone, a body that cannot be decoded included, is answered
\* with 400, 409 or 415.
C29_InternalOnlyForStorage ==
    \A p \in Procs :
        (Done(p) /\ req[p].kind \in {"rejected", "upload"}) =>
            LET resp == UploadResponse(result[p])
            IN  /\ resp.code = 500 => (calls[p] # <<>> /\ ~Fetched(p).ok)
                /\ IsRejected(p) => resp.code \in {400, 409, 415}

\* What a retrieval of the latest version of sn returns on the bucket st
\* when the backend answers.
LatestOf(st, sn) ==
    LET r == GetObjectVersions(st, sn)
    IN  IF r.err # "nil" \/ r.versions = <<>> THEN NoBytes
        ELSE EncodeMap(GetObject(st, Key(sn, r.versions[Len(r.versions)])).bytes)

\* C30: with uploads one at a time on one serial number S, each successful
\* upload without version is assigned a version strictly greater than every
\* version stored for S before it, also when uploads with explicit versions
\* left gaps; and a retrieval of the latest version issued right after it
\* returns the document that upload stored.
C30_MonotoneVersions ==
    \A p \in Procs :
        (Done(p) /\ IsUpload(p, "B") /\ result[p].status = "success") =>
            LET sn == req[p].doc.serialNumber
            IN  /\ \A v \in NumericVersions(pre[p], sn) : result[p].version > v
                /\ LatestOf(store, sn) =
                      EncodeMap(Encode(req[p].doc, sn, result[p].version))

====
